---------------------------- MODULE Spec2Model ----------------------------
(***************************************************************************)
(* Model of the spatial_filter plugin core: the filter codec               *)
(* (helpers.py: addFilterToLayer / removeFilterFromLayer,                  *)
(* filters.py: FilterDefinition.filterString / fromFilterString,           *)
(* helpers.py: matchFormatString) and the filter catalog (filters.py:      *)
(* saveFilterDefinition, deleteFilterDefinition,                           *)
(* updateFilterNameFromStorage).                                           *)
(*                                                                         *)
(* Python strings are sequences of one-character strings; indices of find  *)
(* and of slices are 0-based as in Python, -1 meaning "not found".         *)
(***************************************************************************)
EXTENDS Integers, Sequences, FiniteSets, TLC

\* ------------------------------------------------------------------------
\* Bounds of the model
\* ------------------------------------------------------------------------

\* longest foreign (user-written) text put before or after a marker
MaxLen == 1

\* number of times one behaviour sets the layer's subset string
MaxOps == 2

\* ------------------------------------------------------------------------
\* Python str operations
\* ------------------------------------------------------------------------

SetMin(S) == CHOOSE x \in S : \A y \in S : x <= y

SetMax(S) == CHOOSE x \in S : \A y \in S : y <= x

\* sub occurs in s at 0-based index i
OccursAt(s, sub, i) ==
  /\ i >= 0
  /\ i + Len(sub) <= Len(s)
  /\ \A j \in 1..Len(sub) : s[i + j] = sub[j]

\* str.find(sub, start): lowest 0-based index >= start where sub occurs, else -1
FindFrom(s, sub, start) ==
  LET hits == {i \in start..(Len(s) - Len(sub)) : OccursAt(s, sub, i)}
  IN  IF hits = {} THEN -1 ELSE SetMin(hits)

\* str.find(sub)
Find(s, sub) == FindFrom(s, sub, 0)

\* sub in s
Contains(s, sub) == Find(s, sub) # -1

\* one slice index clamped the way Python clamps it (negative counts from the end)
ClampIndex(i, n) ==
  IF i < 0 THEN (IF n + i < 0 THEN 0 ELSE n + i) ELSE (IF i > n THEN n ELSE i)

\* s[a:b]
Slice(s, a, b) ==
  LET lo == ClampIndex(a, Len(s))
      hi == ClampIndex(b, Len(s))
  IN  IF lo >= hi THEN <<>> ELSE SubSeq(s, lo + 1, hi)

\* s[a:]
SliceFrom(s, a) == SubSeq(s, ClampIndex(a, Len(s)) + 1, Len(s))

\* s[:b]
SliceTo(s, b) == Slice(s, 0, b)

RECURSIVE RStripSet(_, _)
RStripSet(s, set) ==
  IF Len(s) > 0 /\ s[Len(s)] \in set THEN RStripSet(SubSeq(s, 1, Len(s) - 1), set) ELSE s

\* s.rstrip(chars): chars is a SET of characters, every trailing one of which goes
RStrip(s, chars) == RStripSet(s, {chars[i] : i \in 1..Len(chars)})

\* s.startswith(prefix)
StartsWith(s, prefix) == OccursAt(s, prefix, 0)

RECURSIVE Replace(_, _, _)
\* s.replace(old, new), old non-empty: every non-overlapping occurrence, left to right
Replace(s, old, new) ==
  LET i == Find(s, old)
  IN  IF i = -1 THEN s
      ELSE SliceTo(s, i) \o new \o Replace(SliceFrom(s, i + Len(old)), old, new)

\* the upper-case letters the predicate names use, with their lower-case forms
LowerChar(c) ==
  CASE c = "S" -> "s" [] c = "T" -> "t" [] c = "I" -> "i" [] c = "N" -> "n"
    [] c = "E" -> "e" [] c = "R" -> "r" [] c = "C" -> "c" [] c = "W" -> "w"
    [] c = "H" -> "h" [] c = "D" -> "d" [] c = "J" -> "j" [] c = "O" -> "o"
    [] c = "A" -> "a"
    [] OTHER -> c

\* s.lower()
Lower(s) == [i \in 1..Len(s) |-> LowerChar(s[i])]

Digits == <<"0", "1", "2", "3", "4", "5", "6", "7", "8", "9">>

RECURSIVE IntToStr(_)
\* str(n) / "{}".format(n) for n >= 0
IntToStr(n) ==
  IF n < 10 THEN <<Digits[n + 1]>> ELSE IntToStr(n \div 10) \o <<Digits[(n % 10) + 1]>>

DigitValue(c) == (CHOOSE k \in 1..10 : Digits[k] = c) - 1

IsDigit(c) == \E k \in 1..10 : Digits[k] = c

RECURSIVE LStripSet(_, _)
LStripSet(s, set) ==
  IF Len(s) > 0 /\ s[1] \in set THEN LStripSet(SubSeq(s, 2, Len(s)), set) ELSE s

\* s.strip() for the blank character
StripBlanks(s) == LStripSet(RStripSet(s, {" "}), {" "})

\* int(s) raises ValueError unless s, blanks stripped, is a non-empty digit string
IsIntLiteral(s) ==
  LET t == StripBlanks(s) IN Len(t) > 0 /\ \A i \in 1..Len(t) : IsDigit(t[i])

RECURSIVE DigitsToInt(_)
DigitsToInt(t) ==
  IF Len(t) = 0 THEN 0
  ELSE 10 * DigitsToInt(SubSeq(t, 1, Len(t) - 1)) + DigitValue(t[Len(t)])

\* int(s), for s with IsIntLiteral(s)
StrToInt(s) == DigitsToInt(StripBlanks(s))

\* ------------------------------------------------------------------------
\* settings.py and filters.py: markers and templates
\* ------------------------------------------------------------------------

\* settings.py: FILTER_COMMENT_START = '/* SpatialFilter Plugin Start */'
FILTER_COMMENT_START ==
  <<
    "/","*"," ","S","p","a","t","i","a","l","F","i","l","t","e","r"," ","P","l","u","g","i","n",
    " ","S","t","a","r","t"," ","*","/"
  >>

\* settings.py: FILTER_COMMENT_STOP = '/* SpatialFilter Plugin Stop */'
FILTER_COMMENT_STOP ==
  <<
    "/","*"," ","S","p","a","t","i","a","l","F","i","l","t","e","r"," ","P","l","u","g","i","n",
    " ","S","t","o","p"," ","*","/"
  >>

\* settings.py: FILTER_COMMENT_START_SENSORTHINGS (ends in " and ")
FILTER_COMMENT_START_SENSORTHINGS ==
  <<
    "'","S","p","a","t","i","a","l","F","i","l","t","e","r"," ","P","l","u","g","i","n"," ","S",
    "t","a","r","t","'"," ","e","q"," ","'","S","p","a","t","i","a","l","F","i","l","t","e","r",
    " ","P","l","u","g","i","n"," ","S","t","a","r","t","'"," ","a","n","d"," "
  >>

\* settings.py: FILTER_COMMENT_STOP_SENSORTHINGS (starts with " and ")
FILTER_COMMENT_STOP_SENSORTHINGS ==
  <<
    " ","a","n","d"," ","'","S","p","a","t","i","a","l","F","i","l","t","e","r"," ","P","l","u",
    "g","i","n"," ","S","t","o","p","'"," ","e","q"," ","'","S","p","a","t","i","a","l","F","i",
    "l","t","e","r"," ","P","l","u","g","i","n"," ","S","t","o","p","'"
  >>

\* filters.py: FILTERSTRING_TEMPLATE
FILTERSTRING_TEMPLATE ==
  <<
    "{","s","p","a","t","i","a","l","_","p","r","e","d","i","c","a","t","e","}","(","{","g","e",
    "o","m","_","n","a","m","e","}",","," ","S","T","_","T","R","A","N","S","F","O","R","M","(",
    "S","T","_","G","e","o","m","F","r","o","m","T","e","x","t","(","'","{","w","k","t","}","'",
    ","," ","{","s","r","i","d","}",")",","," ","{","l","a","y","e","r","_","s","r","i","d","}",
    ")",")"
  >>

\* filters.py: FILTERSTRING_TEMPLATE_SENSORTHINGS
FILTERSTRING_TEMPLATE_SENSORTHINGS ==
  <<
    "{","s","p","a","t","i","a","l","_","p","r","e","d","i","c","a","t","e","}","(","{","g","e",
    "o","m","_","n","a","m","e","}",","," ","g","e","o","g","r","a","p","h","y","'","{","w","k",
    "t","}","'",")"
  >>

\* WKT of a triangle, as QgsGeometry.asWkt() writes it
WKT_TRI ==
  <<
    "P","o","l","y","g","o","n"," ","(","(","0"," ","0",","," ","2"," ","0",","," ","0"," ","2",
    ","," ","0"," ","0",")",")"
  >>

\* WKT of the triangle's bounding box (QgsGeometry.fromRect(...).asWkt())
WKT_BOX ==
  <<
    "P","o","l","y","g","o","n"," ","(","(","0"," ","0",","," ","2"," ","0",","," ","2"," ","2",
    ","," ","0"," ","2",","," ","0"," ","0",")",")"
  >>

\* WKT of the triangle after a coordinate transform
WKT_TRI_T ==
  <<
    "P","o","l","y","g","o","n"," ","(","(","0"," ","0",","," ","9"," ","0",","," ","0"," ","9",
    ","," ","0"," ","0",")",")"
  >>

\* WKT of the box after a coordinate transform
WKT_BOX_T ==
  <<
    "P","o","l","y","g","o","n"," ","(","(","0"," ","0",","," ","9"," ","0",","," ","9"," ","9",
    ","," ","0"," ","9",","," ","0"," ","0",")",")"
  >>

\* geometry column of the GeoPackage layer
GEOM_NAME_SQL ==
  <<
    "g","e","o","m"
  >>

\* geometry field of a SensorThings Location entity
GEOM_NAME_STA ==
  <<
    "l","o","c","a","t","i","o","n"
  >>

KW_SPATIAL_PREDICATE ==
  <<
    "s","p","a","t","i","a","l","_","p","r","e","d","i","c","a","t","e"
  >>

KW_GEOM_NAME ==
  <<
    "g","e","o","m","_","n","a","m","e"
  >>

KW_WKT ==
  <<
    "w","k","t"
  >>

KW_SRID ==
  <<
    "s","r","i","d"
  >>

KW_LAYER_SRID ==
  <<
    "l","a","y","e","r","_","s","r","i","d"
  >>

STR_ST_ ==
  <<
    "S","T","_"
  >>

STR_NOT_ST_INTERSECTS ==
  <<
    "N","O","T"," ","S","T","_","I","N","T","E","R","S","E","C","T","S"
  >>

STR_AND_UPPER ==
  <<
    " ","A","N","D"," "
  >>

STR_AND_LOWER ==
  <<
    " ","a","n","d"," "
  >>

NAME_INTERSECTS ==
  <<
    "I","N","T","E","R","S","E","C","T","S"
  >>

NAME_WITHIN ==
  <<
    "W","I","T","H","I","N"
  >>

NAME_DISJOINT ==
  <<
    "D","I","S","J","O","I","N","T"
  >>

STR_EPSG ==
  <<
    "E","P","S","G",":"
  >>

\* ------------------------------------------------------------------------
\* str.format and helpers.py: matchFormatString
\* ------------------------------------------------------------------------

RECURSIVE SplitTemplate(_)
\* re.split(r'\{(.*?)\}', format_str): literal, keyword, literal, ..., literal
SplitTemplate(fmt) ==
  LET open  == Find(fmt, <<"{">>)
      close == IF open = -1 THEN -1 ELSE FindFrom(fmt, <<"}">>, open + 1)
  IN  IF open = -1 \/ close = -1 THEN <<fmt>>
      ELSE <<SliceTo(fmt, open), Slice(fmt, open + 1, close)>>
             \o SplitTemplate(SliceFrom(fmt, close + 1))

\* keywords = tokens[1::2]
Keywords(tokens) == [i \in 1..(Len(tokens) \div 2) |-> tokens[2 * i]]

RECURSIVE FormatTokens(_, _, _)
FormatTokens(tokens, k, args) ==
  IF k > Len(tokens) THEN <<>>
  ELSE (IF k % 2 = 1 THEN tokens[k] ELSE args[tokens[k]]) \o FormatTokens(tokens, k + 1, args)

\* format_str.format(**args), for tokens = SplitTemplate(format_str): every
\* {keyword} replaced by its argument
Format(tokens, args) == FormatTokens(tokens, 1, args)

RECURSIVE CanMatch(_, _, _, _)
\* the pattern's remainder after literal tokens[k] can match s from pos on: every
\* (?P<kw>.*) takes any characters (the strings here hold no newline), every literal
\* must occur after it, and nothing anchors the end of s
CanMatch(tokens, k, s, pos) ==
  \/ k >= Len(tokens)
  \/ \E p \in pos..(Len(s) - Len(tokens[k + 2])) :
       /\ OccursAt(s, tokens[k + 2], p)
       /\ CanMatch(tokens, k + 2, s, p + Len(tokens[k + 2]))

RECURSIVE MatchGroups(_, _, _, _)
\* the groups re.match captures after literal tokens[k], which ended at pos, for a
\* remainder that can match: each (?P<kw>.*) is greedy, so it ends at the LAST place
\* where the next literal occurs and the rest of the pattern still matches
MatchGroups(tokens, k, s, pos) ==
  IF k >= Len(tokens) THEN <<>>
  ELSE
    LET lit == tokens[k + 2]
        p   == SetMax({q \in pos..(Len(s) - Len(lit)) :
                         /\ OccursAt(s, lit, q)
                         /\ CanMatch(tokens, k + 2, s, q + Len(lit))})
    IN  <<Slice(s, pos, p)>> \o MatchGroups(tokens, k + 2, s, p + Len(lit))

\* matchFormatString(format_str, s), for tokens = SplitTemplate(format_str), the
\* tokens re.split gives: ok = FALSE stands for
\* raise Exception("Format string did not match"); params is the returned dict
matchFormatString(tokens, s) ==
  LET keywords == Keywords(tokens)
      matches  == StartsWith(s, tokens[1]) /\ CanMatch(tokens, 1, s, Len(tokens[1]))
      caps     == MatchGroups(tokens, 1, s, Len(tokens[1]))
  IN  IF ~matches THEN [ok |-> FALSE, params |-> << >>]
      ELSE [ok     |-> TRUE,
            params |-> [kw \in {keywords[i] : i \in 1..Len(keywords)} |->
                          caps[CHOOSE i \in 1..Len(keywords) : keywords[i] = kw]]]

\* re.split(r'\{(.*?)\}', FILTERSTRING_TEMPLATE)
TEMPLATE_TOKENS == SplitTemplate(FILTERSTRING_TEMPLATE)

\* re.split(r'\{(.*?)\}', FILTERSTRING_TEMPLATE_SENSORTHINGS)
TEMPLATE_TOKENS_SENSORTHINGS == SplitTemplate(FILTERSTRING_TEMPLATE_SENSORTHINGS)

\* ------------------------------------------------------------------------
\* Geometry / CRS adapter (QgsGeometry, QgsCoordinateReferenceSystem): an
\* opaque capability, modelled on a small table of geometries.  A geometry is
\* a shape with the coordinates it currently has ("u": as drawn, "t": after a
\* coordinate transform); the null geometry is what fromWkt gives for text
\* that is no WKT.
\* ------------------------------------------------------------------------

NullGeometry == [shape |-> "null", coords |-> "u"]

Geometries ==
  {NullGeometry} \cup [shape : {"tri", "box"}, coords : {"u", "t"}]

\* QgsGeometry.asWkt()
asWkt(g) ==
  CASE g.shape = "tri" /\ g.coords = "u" -> WKT_TRI
    [] g.shape = "box" /\ g.coords = "u" -> WKT_BOX
    [] g.shape = "tri" /\ g.coords = "t" -> WKT_TRI_T
    [] g.shape = "box" /\ g.coords = "t" -> WKT_BOX_T
    [] OTHER -> <<>>

\* QgsGeometry.fromWkt(wkt)
fromWkt(wkt) ==
  IF \E g \in Geometries : g # NullGeometry /\ asWkt(g) = wkt
  THEN CHOOSE g \in Geometries : g # NullGeometry /\ asWkt(g) = wkt
  ELSE NullGeometry

\* QgsGeometry.fromRect(g.boundingBox())
boundingBoxGeometry(g) ==
  IF g = NullGeometry THEN NullGeometry ELSE [g EXCEPT !.shape = "box"]

\* QgsGeometry.isGeosValid()
isGeosValid(g) == g # NullGeometry

\* QgsGeometry.convertToSingleType(): the shapes of the table are single-part
convertToSingleType(g) == g

\* the CRS the catalogue of QGIS knows, by PostGIS SRID; 0 is the invalid CRS
KnownSrids == {4326, 3857}

InvalidCrs == 0

\* QgsCoordinateReferenceSystem.isValid()
crsIsValid(crs) == crs \in KnownSrids

\* QgsCoordinateReferenceSystem.postgisSrid()
postgisSrid(crs) == crs

\* QgsCoordinateReferenceSystem(<postgis srid>)
crsFromSrid(n) == IF n \in KnownSrids THEN n ELSE InvalidCrs

\* QgsCoordinateReferenceSystem.authid(), e.g. EPSG:4326
authid(crs) == IF crsIsValid(crs) THEN STR_EPSG \o IntToStr(crs) ELSE <<>>

\* QgsCoordinateReferenceSystem(<auth id>)
crsFromAuthid(a) ==
  IF StartsWith(a, STR_EPSG) /\ IsIntLiteral(SliceFrom(a, Len(STR_EPSG)))
  THEN crsFromSrid(StrToInt(SliceFrom(a, Len(STR_EPSG))))
  ELSE InvalidCrs

\* helpers.py: reproject_geometry
reproject_geometry(geometry, source_crs_epsg, target_crs_epsg) ==
  IF crsFromSrid(source_crs_epsg) = crsFromSrid(target_crs_epsg) THEN geometry
  ELSE IF geometry = NullGeometry THEN geometry
  ELSE [geometry EXCEPT !.coords = IF @ = "u" THEN "t" ELSE "u"]

\* ------------------------------------------------------------------------
\* filters.py: Predicate and FilterDefinition
\* ------------------------------------------------------------------------

INTERSECTS == 1

WITHIN == 2

DISJOINT == 3

PredicateValues == {INTERSECTS, WITHIN, DISJOINT}

\* Predicate(value).name
PredicateName(value) ==
  CASE value = INTERSECTS -> NAME_INTERSECTS
    [] value = WITHIN -> NAME_WITHIN
    [] value = DISJOINT -> NAME_DISJOINT

\* name in Predicate.__members__ (Predicate[name] raises KeyError otherwise)
IsPredicateName(name) == \E v \in PredicateValues : PredicateName(v) = name

\* Predicate[name].value
PredicateByName(name) == CHOOSE v \in PredicateValues : PredicateName(v) = name

\* tr('Unknown filter')
UnknownFilterName == "Unknown filter"

\* the dataclass FilterDefinition(name, wkt, crs, predicate, bbox)
FilterDefinition(name, wkt, crs, predicate, bbox) ==
  [name |-> name, wkt |-> wkt, crs |-> crs, predicate |-> predicate, bbox |-> bbox]

\* FilterDefinition.geometry
geometry(filterDef) == fromWkt(filterDef.wkt)

\* FilterDefinition.boxGeometry
boxGeometry(filterDef) == boundingBoxGeometry(geometry(filterDef))

\* FilterDefinition.isValid: all([geometry.isGeosValid(), crs.isValid(), predicate])
isValid(filterDef) ==
  /\ isGeosValid(geometry(filterDef))
  /\ crsIsValid(filterDef.crs)
  /\ filterDef.predicate # 0

\* ------------------------------------------------------------------------
\* Layers (QgsVectorLayer): storage type, CRS, geometry field, subset string
\* ------------------------------------------------------------------------

SENSORTHINGS_STORAGE_TYPE == "OGC SensorThings API"

GPKG_STORAGE_TYPE == "GPKG"

StorageTypes == {GPKG_STORAGE_TYPE, SENSORTHINGS_STORAGE_TYPE}

\* helpers.py: getLayerGeomName
getLayerGeomName(layer) ==
  IF layer.storageType = SENSORTHINGS_STORAGE_TYPE THEN GEOM_NAME_STA ELSE GEOM_NAME_SQL

\* helpers.py: getFilterStartStopString, as [start, stop]
getFilterStartStopString(layer) ==
  IF layer.storageType = SENSORTHINGS_STORAGE_TYPE
  THEN [start |-> FILTER_COMMENT_START_SENSORTHINGS,
        stop  |-> FILTER_COMMENT_STOP_SENSORTHINGS]
  ELSE [start |-> FILTER_COMMENT_START, stop |-> FILTER_COMMENT_STOP]

\* ------------------------------------------------------------------------
\* filters.py: FilterDefinition.filterString (render)
\* ------------------------------------------------------------------------

\* the WKT filterString renders: the geometry, or its bounding box when bbox is set
effectiveWkt(filterDef) ==
  IF ~filterDef.bbox THEN filterDef.wkt ELSE asWkt(boxGeometry(filterDef))

\* filterString without the rewrite of DISJOINT
filterStringPlainDisjoint(filterDef, layer) ==
  LET spatial_predicate == STR_ST_ \o PredicateName(filterDef.predicate)
      wkt        == effectiveWkt(filterDef)
      srid       == postgisSrid(filterDef.crs)
      layer_srid == postgisSrid(layer.crs)
      geom_name  == getLayerGeomName(layer)
  IN  IF layer.storageType = SENSORTHINGS_STORAGE_TYPE
      THEN LET single_geometry      == convertToSingleType(fromWkt(wkt))
               reprojected_geometry == reproject_geometry(single_geometry, srid, layer_srid)
           IN  Format(TEMPLATE_TOKENS_SENSORTHINGS,
                      (KW_SPATIAL_PREDICATE :> Lower(spatial_predicate))
                        @@ (KW_GEOM_NAME :> geom_name)
                        @@ (KW_WKT :> asWkt(reprojected_geometry)))
      ELSE Format(TEMPLATE_TOKENS,
                  (KW_SPATIAL_PREDICATE :> spatial_predicate)
                    @@ (KW_GEOM_NAME :> geom_name)
                    @@ (KW_WKT :> wkt)
                    @@ (KW_SRID :> IntToStr(srid))
                    @@ (KW_LAYER_SRID :> IntToStr(layer_srid)))

\* filterString with the rewrite of DISJOINT done before the SensorThings branch
filterStringNegatingFirst(filterDef, layer) ==
  LET spatial_predicate == IF filterDef.predicate = DISJOINT
                           THEN STR_NOT_ST_INTERSECTS
                           ELSE STR_ST_ \o PredicateName(filterDef.predicate)
      wkt        == effectiveWkt(filterDef)
      srid       == postgisSrid(filterDef.crs)
      layer_srid == postgisSrid(layer.crs)
      geom_name  == getLayerGeomName(layer)
  IN  IF layer.storageType = SENSORTHINGS_STORAGE_TYPE
      THEN LET single_geometry      == convertToSingleType(fromWkt(wkt))
               reprojected_geometry == reproject_geometry(single_geometry, srid, layer_srid)
           IN  Format(TEMPLATE_TOKENS_SENSORTHINGS,
                      (KW_SPATIAL_PREDICATE :> Lower(spatial_predicate))
                        @@ (KW_GEOM_NAME :> geom_name)
                        @@ (KW_WKT :> asWkt(reprojected_geometry)))
      ELSE Format(TEMPLATE_TOKENS,
                  (KW_SPATIAL_PREDICATE :> spatial_predicate)
                    @@ (KW_GEOM_NAME :> geom_name)
                    @@ (KW_WKT :> wkt)
                    @@ (KW_SRID :> IntToStr(srid))
                    @@ (KW_LAYER_SRID :> IntToStr(layer_srid)))

\* FilterDefinition.filterString(layer)
filterString(filterDef, layer) ==
  LET spatial_predicate == STR_ST_ \o PredicateName(filterDef.predicate)
      wkt        == effectiveWkt(filterDef)
      srid       == postgisSrid(filterDef.crs)
      layer_srid == postgisSrid(layer.crs)
      geom_name  == getLayerGeomName(layer)
  IN  IF layer.storageType = SENSORTHINGS_STORAGE_TYPE
      THEN LET single_geometry      == convertToSingleType(fromWkt(wkt))
               reprojected_geometry == reproject_geometry(single_geometry, srid, layer_srid)
           IN  Format(TEMPLATE_TOKENS_SENSORTHINGS,
                      (KW_SPATIAL_PREDICATE :> Lower(spatial_predicate))
                        @@ (KW_GEOM_NAME :> geom_name)
                        @@ (KW_WKT :> asWkt(reprojected_geometry)))
      ELSE Format(TEMPLATE_TOKENS,
                  (KW_SPATIAL_PREDICATE :>
                      IF filterDef.predicate = DISJOINT
                      THEN STR_NOT_ST_INTERSECTS ELSE spatial_predicate)
                    @@ (KW_GEOM_NAME :> geom_name)
                    @@ (KW_WKT :> wkt)
                    @@ (KW_SRID :> IntToStr(srid))
                    @@ (KW_LAYER_SRID :> IntToStr(layer_srid)))

\* ------------------------------------------------------------------------
\* helpers.py: removeFilterFromLayer, addFilterToLayer (extract / inject)
\* ------------------------------------------------------------------------

\* removeFilterFromLayer(layer): the layer's subset string afterwards
removeFilterFromLayer(layer) ==
  LET mark          == getFilterStartStopString(layer)
      currentFilter == layer.subsetString
      start_index   == Find(currentFilter, mark.start)
      stop_index    == Find(currentFilter, mark.stop) + Len(mark.stop)
      newFilter     == SliceTo(currentFilter, start_index)
                         \o SliceFrom(currentFilter, stop_index)
  IN  IF start_index = -1 THEN currentFilter  \* FILTER_START_STRING not in currentFilter
      ELSE RStrip(newFilter, STR_AND_LOWER)

\* addFilterToLayer without connect.lower() in the SensorThings branch
addFilterToLayerUpperConnector(layer, filterDef) ==
  LET mark          == getFilterStartStopString(layer)
      currentFilter == IF Contains(layer.subsetString, mark.start)
                       THEN removeFilterFromLayer(layer)
                       ELSE layer.subsetString
      connect       == IF currentFilter # <<>> THEN STR_AND_UPPER ELSE <<>>
  IN  IF layer.storageType = SENSORTHINGS_STORAGE_TYPE
      THEN currentFilter \o connect \o mark.start
             \o filterString(filterDef, layer) \o mark.stop
      ELSE currentFilter \o mark.start \o connect
             \o filterString(filterDef, layer) \o mark.stop

\* addFilterToLayer putting the connector in whatever the current filter is
addFilterToLayerAlwaysConnecting(layer, filterDef) ==
  LET mark          == getFilterStartStopString(layer)
      currentFilter == IF Contains(layer.subsetString, mark.start)
                       THEN removeFilterFromLayer(layer)
                       ELSE layer.subsetString
      connect       == STR_AND_UPPER
  IN  IF layer.storageType = SENSORTHINGS_STORAGE_TYPE
      THEN currentFilter \o Lower(connect) \o mark.start
             \o filterString(filterDef, layer) \o mark.stop
      ELSE currentFilter \o mark.start \o connect
             \o filterString(filterDef, layer) \o mark.stop

\* addFilterToLayer without the removal of the fragment the layer carries
addFilterToLayerWithoutRemoval(layer, filterDef) ==
  LET mark          == getFilterStartStopString(layer)
      currentFilter == layer.subsetString
      connect       == IF currentFilter # <<>> THEN STR_AND_UPPER ELSE <<>>
  IN  IF layer.storageType = SENSORTHINGS_STORAGE_TYPE
      THEN currentFilter \o Lower(connect) \o mark.start
             \o filterString(filterDef, layer) \o mark.stop
      ELSE currentFilter \o mark.start \o connect
             \o filterString(filterDef, layer) \o mark.stop

\* addFilterToLayer(layer, filterDef): the layer's subset string afterwards
addFilterToLayer(layer, filterDef) ==
  LET mark          == getFilterStartStopString(layer)
      currentFilter == IF Contains(layer.subsetString, mark.start)
                       THEN removeFilterFromLayer(layer)
                       ELSE layer.subsetString
      connect       == IF currentFilter # <<>> THEN STR_AND_UPPER ELSE <<>>
  IN  IF layer.storageType = SENSORTHINGS_STORAGE_TYPE
      THEN currentFilter \o Lower(connect) \o mark.start
             \o filterString(filterDef, layer) \o mark.stop
      ELSE currentFilter \o mark.start \o connect
             \o filterString(filterDef, layer) \o mark.stop

\* ------------------------------------------------------------------------
\* filters.py: the catalog (QgsSettings group) and reconciliation
\* ------------------------------------------------------------------------

\* FilterDefinition.storageDict
storageDict(filterDef) ==
  [name      |-> filterDef.name,
   wkt       |-> filterDef.wkt,
   srid      |-> authid(filterDef.crs),
   predicate |-> IntToStr(filterDef.predicate),
   bbox      |-> filterDef.bbox]

\* FilterDefinition.fromStorageDict(value), for a value with the five fields;
\* __post_init__ turns the predicate into an int
fromStorageDict(value) ==
  FilterDefinition(value.name, value.wkt, crsFromAuthid(value.srid),
                   StrToInt(value.predicate), value.bbox)

\* assert len(value) == 5 fails (AssertionError)
fromStorageDictRaises(value) == Cardinality(DOMAIN value) # 5

\* loadAllFilterDefinitions(), for the values allSettingsValues() returned
loadAllFilterDefinitions(values) == [i \in 1..Len(values) |-> fromStorageDict(values[i])]

\* the first entry, in storage order, that either condition of the loop accepts
\* (0 when the loop ends without returning)
firstStorageMatch(filterDef, storageFilters) ==
  LET hits == {i \in 1..Len(storageFilters) :
                 \/ /\ filterDef.crs = storageFilters[i].crs
                    /\ filterDef.wkt = storageFilters[i].wkt
                 \/ /\ filterDef.crs = storageFilters[i].crs
                    /\ filterDef.wkt = asWkt(boxGeometry(storageFilters[i]))}
  IN  IF hits = {} THEN 0 ELSE SetMin(hits)

\* updateFilterNameFromStorage returning the entry with its stored predicate
updateFilterNameKeepingStoredPredicate(filterDef, values) ==
  LET storageFilters == loadAllFilterDefinitions(values)
      i              == firstStorageMatch(filterDef, storageFilters)
      storageFilter  == storageFilters[i]
  IN  IF i = 0 THEN filterDef
      ELSE IF filterDef.crs = storageFilter.crs /\ filterDef.wkt = storageFilter.wkt
      THEN storageFilter
      ELSE [storageFilter EXCEPT !.bbox = TRUE]

\* updateFilterNameFromStorage(filterDef), for the values allSettingsValues() returned
updateFilterNameFromStorage(filterDef, values) ==
  LET storageFilters == loadAllFilterDefinitions(values)
      i              == firstStorageMatch(filterDef, storageFilters)
      storageFilter  == storageFilters[i]
  IN  IF i = 0 THEN filterDef
      ELSE IF filterDef.crs = storageFilter.crs /\ filterDef.wkt = storageFilter.wkt
      THEN [storageFilter EXCEPT !.predicate = filterDef.predicate]
      ELSE [storageFilter EXCEPT !.predicate = filterDef.predicate, !.bbox = TRUE]

\* ------------------------------------------------------------------------
\* filters.py: FilterDefinition.fromFilterString (reverse parse)
\* ------------------------------------------------------------------------

NoDefinition == FilterDefinition("", <<>>, InvalidCrs, 0, FALSE)

\* an exception leaves fromFilterString: error names it
Raised(error) == [ok |-> FALSE, error |-> error, def |-> NoDefinition]

Returned(filterDef) == [ok |-> TRUE, error |-> "", def |-> filterDef]

\* FilterDefinition.fromFilterString(layer), for the values allSettingsValues() returns
fromFilterString(layer, values) ==
  LET subsetString  == layer.subsetString
      mark          == getFilterStartStopString(layer)
      start_index   == Find(subsetString, mark.start) + Len(mark.start)
      stop_index    == Find(subsetString, mark.stop)
      fragment      == Replace(Slice(subsetString, start_index, stop_index),
                               STR_AND_UPPER, <<>>)
      match         == matchFormatString(TEMPLATE_TOKENS, fragment)
      params        == match.params
      stripped      == SliceFrom(params[KW_SPATIAL_PREDICATE], Len(STR_ST_))
      predicateName == IF layer.storageType = SENSORTHINGS_STORAGE_TYPE THEN stripped
                       ELSE IF StartsWith(fragment, STR_NOT_ST_INTERSECTS)
                       THEN NAME_DISJOINT ELSE stripped
  IN  IF ~match.ok THEN Raised("Format string did not match")
      ELSE IF ~IsPredicateName(predicateName) THEN Raised("KeyError")
      ELSE IF ~IsIntLiteral(params[KW_SRID]) THEN Raised("ValueError")
      ELSE IF \E i \in 1..Len(values) : fromStorageDictRaises(values[i])
      THEN Raised("AssertionError")
      ELSE Returned(updateFilterNameFromStorage(
             FilterDefinition(UnknownFilterName, params[KW_WKT],
                              crsFromSrid(StrToInt(params[KW_SRID])),
                              PredicateByName(predicateName), FALSE),
             values))

\* ------------------------------------------------------------------------
\* filters.py: saveFilterDefinition, deleteFilterDefinition
\* ------------------------------------------------------------------------

\* the catalog with no entry
EmptySettings == [n \in {} |-> storageDict(NoDefinition)]

\* readSettingsValue(key) is not None
hasSettingsValue(store, key) == key \in DOMAIN store

\* saveSettingsValue(key, value)
saveSettingsValue(store, key, value) ==
  [n \in DOMAIN store \cup {key} |-> IF n = key THEN value ELSE store[n]]

\* removeSettingsValue(key)
removeSettingsValue(store, key) == [n \in DOMAIN store \ {key} |-> store[n]]

\* FilterDefinition.isSaved: storageDict == readSettingsValue(name)
isSaved(filterDef, store) ==
  hasSettingsValue(store, filterDef.name) /\ store[filterDef.name] = storageDict(filterDef)

\* saveFilterDefinition asks askOverwrite(name)
saveAsksOverwrite(filterDef, store) ==
  /\ isValid(filterDef)
  /\ filterDef.name # ""
  /\ ~isSaved(filterDef, store)
  /\ hasSettingsValue(store, filterDef.name)

\* saveFilterDefinition without the checks of isValid and of the name
saveFilterDefinitionUnchecked(filterDef, store, overwrite) ==
  IF isSaved(filterDef, store) THEN store
  ELSE IF hasSettingsValue(store, filterDef.name) /\ ~overwrite THEN store
  ELSE saveSettingsValue(store, filterDef.name, storageDict(filterDef))

\* saveFilterDefinition saving whatever askOverwrite answers
saveFilterDefinitionUnconfirmed(filterDef, store, overwrite) ==
  IF ~isValid(filterDef) THEN store
  ELSE IF filterDef.name = "" THEN store
  ELSE IF isSaved(filterDef, store) THEN store
  ELSE saveSettingsValue(store, filterDef.name, storageDict(filterDef))

\* saveFilterDefinition(filterDef): the catalog afterwards, overwrite being
\* what askOverwrite answers when it is asked
saveFilterDefinition(filterDef, store, overwrite) ==
  IF ~isValid(filterDef) THEN store
  ELSE IF filterDef.name = "" THEN store
  ELSE IF isSaved(filterDef, store) THEN store
  ELSE IF hasSettingsValue(store, filterDef.name) /\ ~overwrite THEN store
  ELSE saveSettingsValue(store, filterDef.name, storageDict(filterDef))

\* deleteFilterDefinition(filterDef): the catalog afterwards, confirmed being
\* what askDelete answers
deleteFilterDefinition(filterDef, store, confirmed) ==
  IF confirmed THEN removeSettingsValue(store, filterDef.name) ELSE store

\* allSettingsValues(): the stored values in the order allKeys() lists them,
\* an order the storage layer leaves open
allSettingsValues(store) ==
  LET n == Cardinality(DOMAIN store)
  IN  {[i \in 1..n |-> store[keys[i]]] :
         keys \in {k \in [1..n -> DOMAIN store] : \A i, j \in 1..n : i # j => k[i] # k[j]}}

\* ------------------------------------------------------------------------
\* State
\* ------------------------------------------------------------------------

VARIABLES
  layer,      \* the vector layer: storageType, crs, subsetString
  settings,   \* the catalog (QgsSettings group): filter name -> storage dict
  last,       \* the operation that ran last, its arguments and its outcome
  edits,      \* how many times the layer's subset string was set
  controller, \* the FilterController: currentFilter, None or a reference
  heap,       \* the FilterDefinition objects and the CRS handles they refer to
  project     \* the map layers of the project: layer id -> layer

vars == <<layer, settings, last, edits, controller, heap, project>>

\* None
None == 0

\* FilterController.__init__: no current filter
NoController == [currentFilter |-> None]

\* no FilterDefinition object, no CRS handle
EmptyHeap == [objects |-> <<>>, crs |-> <<>>]

\* QgsProject.instance().mapLayers() of a project without layers
EmptyProject == <<>>

\* characters of foreign text: one that no marker or rstrip touches, a letter
\* of "and", and the blank
ForeignChars == {"x", "d", " "}

ForeignTexts == UNION {[1..n -> ForeignChars] : n \in 0..MaxLen}

\* subset strings a layer may carry when the plugin first sees it: foreign text
\* alone, foreign text around a start marker that has lost its stop marker, or
\* the text of the stop marker left behind in the user's filter
InitialSubsetStrings(mark) ==
  {p[1] \o mid \o p[2] :
     p \in {q \in ForeignTexts \X ForeignTexts : Len(q[1]) + Len(q[2]) <= MaxLen},
     mid \in {<<>>, mark.start}}
  \cup {mark.stop}

\* a GeoPackage layer and a SensorThings layer, both in EPSG:4326
Layers ==
  {[storageType |-> GPKG_STORAGE_TYPE, crs |-> 4326, subsetString |-> <<>>],
   [storageType |-> SENSORTHINGS_STORAGE_TYPE, crs |-> 4326, subsetString |-> <<>>]}

\* the filter definitions the user applies: a triangle drawn in EPSG:3857
AppliedDefinitions ==
  {FilterDefinition("New Filter", WKT_TRI, 3857, predicate, bbox) :
     predicate \in PredicateValues, bbox \in BOOLEAN}

\* the names under which filters are saved
Names == {"A", "B"}

\* FilterDefinition.defaultFilter()
defaultFilter == FilterDefinition("New Filter", <<>>, InvalidCrs, INTERSECTS, FALSE)

\* the filter definitions the user saves: the triangle or its bounding box
\* under a name, the triangle without a name, and the default filter, with its
\* own name or renamed
SavedDefinitions ==
  {FilterDefinition(name, wkt, 3857, predicate, bbox) :
     name \in Names, wkt \in {WKT_TRI, WKT_BOX},
     predicate \in {INTERSECTS, DISJOINT}, bbox \in BOOLEAN}
  \cup {FilterDefinition("", WKT_TRI, 3857, INTERSECTS, FALSE),
        defaultFilter, [defaultFilter EXCEPT !.name = "A"]}

\* the definitions fromFilterString hands to updateFilterNameFromStorage
ParsedDefinitions ==
  {FilterDefinition(UnknownFilterName, wkt, crs, predicate, FALSE) :
     wkt \in {WKT_TRI, WKT_BOX}, crs \in KnownSrids,
     predicate \in {INTERSECTS, WITHIN}}

\* the catalog found when the project is opened: the triangle, saved as "A"
\* with the bounding-box flag set
InitialCatalog ==
  saveSettingsValue(EmptySettings, "A",
                    storageDict(FilterDefinition("A", WKT_TRI, 3857, WITHIN, TRUE)))

NoOperation ==
  [op |-> "init", def |-> NoDefinition, before |-> <<>>, ok |-> TRUE, error |-> "",
   result |-> NoDefinition, values |-> <<>>, asked |-> FALSE, answer |-> FALSE]

Init ==
  /\ \E l \in Layers :
       \E s \in InitialSubsetStrings(getFilterStartStopString(l)) :
         layer = [l EXCEPT !.subsetString = s]
  /\ settings = InitialCatalog
  /\ last = NoOperation
  /\ edits = 0
  /\ controller = NoController
  /\ heap = EmptyHeap
  /\ project = EmptyProject

\* ------------------------------------------------------------------------
\* Operations on the layer
\* ------------------------------------------------------------------------

\* helpers.addFilterToLayer(layer, filterDef)
AddFilterToLayer(filterDef) ==
  /\ edits < MaxOps
  /\ edits' = edits + 1
  /\ layer' = [layer EXCEPT !.subsetString = addFilterToLayer(layer, filterDef)]
  /\ last' = [NoOperation EXCEPT !.op = "add", !.def = filterDef,
                                 !.before = layer.subsetString]
  /\ UNCHANGED <<settings, controller, heap, project>>

\* helpers.removeFilterFromLayer(layer): it returns None and raises nothing
RemoveFilterFromLayer ==
  /\ edits < MaxOps
  /\ edits' = edits + 1
  /\ layer' = [layer EXCEPT !.subsetString = removeFilterFromLayer(layer)]
  /\ last' = [NoOperation EXCEPT !.op = "remove", !.before = layer.subsetString]
  /\ UNCHANGED <<settings, controller, heap, project>>

\* FilterDefinition.fromFilterString(layer)
FromFilterString ==
  \E values \in allSettingsValues(settings) :
    LET r == fromFilterString(layer, values)
    IN  /\ last' = [NoOperation EXCEPT !.op = "parse", !.before = layer.subsetString,
                                       !.ok = r.ok, !.error = r.error,
                                       !.result = r.def, !.values = values]
        /\ UNCHANGED <<layer, settings, edits, controller, heap, project>>

Next ==
  \/ \E filterDef \in AppliedDefinitions : AddFilterToLayer(filterDef)
  \/ RemoveFilterFromLayer
  \/ FromFilterString

Spec == Init /\ [][Next]_vars

\* ------------------------------------------------------------------------
\* Operations on the catalog
\* ------------------------------------------------------------------------

InitCatalog ==
  /\ layer = [storageType |-> GPKG_STORAGE_TYPE, crs |-> 4326, subsetString |-> <<>>]
  /\ settings = EmptySettings
  /\ last = NoOperation
  /\ edits = 0
  /\ controller = NoController
  /\ heap = EmptyHeap
  /\ project = EmptyProject

\* saveFilterDefinition(filterDef); answer is what askOverwrite returns if asked
SaveFilterDefinition(filterDef, answer) ==
  /\ answer => saveAsksOverwrite(filterDef, settings)
  /\ settings' = saveFilterDefinition(filterDef, settings, answer)
  /\ last' = [NoOperation EXCEPT !.op = "save", !.def = filterDef,
                                 !.asked = saveAsksOverwrite(filterDef, settings),
                                 !.answer = answer]
  /\ UNCHANGED <<layer, edits, controller, heap, project>>

\* deleteFilterDefinition(filterDef) for an entry the dialog lists; answer is
\* what askDelete returns
DeleteFilterDefinition(name, answer) ==
  /\ name \in DOMAIN settings
  /\ settings' = deleteFilterDefinition(fromStorageDict(settings[name]), settings, answer)
  /\ last' = [NoOperation EXCEPT !.op = "delete",
                                 !.def = fromStorageDict(settings[name]),
                                 !.asked = TRUE, !.answer = answer]
  /\ UNCHANGED <<layer, edits, controller, heap, project>>

\* updateFilterNameFromStorage(filterDef)
UpdateFilterNameFromStorage(filterDef) ==
  \E values \in allSettingsValues(settings) :
    /\ last' = [NoOperation EXCEPT !.op = "reconcile", !.def = filterDef,
                                   !.values = values,
                                   !.result = updateFilterNameFromStorage(filterDef, values)]
    /\ UNCHANGED <<layer, settings, edits, controller, heap, project>>

NextCatalog ==
  \/ \E filterDef \in SavedDefinitions, answer \in BOOLEAN :
       SaveFilterDefinition(filterDef, answer)
  \/ \E name \in Names, answer \in BOOLEAN : DeleteFilterDefinition(name, answer)
  \/ \E filterDef \in ParsedDefinitions : UpdateFilterNameFromStorage(filterDef)

SpecCatalog == InitCatalog /\ [][NextCatalog]_vars

\* ------------------------------------------------------------------------
\* Properties of the codec (checked under Spec)
\* ------------------------------------------------------------------------

\* the markers of the layer's dialect
Mark == getFilterStartStopString(layer)

IsSensorThings == layer.storageType = SENSORTHINGS_STORAGE_TYPE

\* s holds neither marker of the layer's dialect
HasNoMarker(s) == ~Contains(s, Mark.start) /\ ~Contains(s, Mark.stop)

\* s holds the start marker and no stop marker after it
IsMalformed(s) ==
  LET i == Find(s, Mark.start)
  IN  /\ i # -1
      /\ ~Contains(SliceFrom(s, i + Len(Mark.start)), Mark.stop)

\* where sub occurs last in s (-1: nowhere)
RFind(s, sub) ==
  LET hits == {i \in 0..(Len(s) - Len(sub)) : OccursAt(s, sub, i)}
  IN  IF hits = {} THEN -1 ELSE SetMax(hits)

\* the predicate token of the fragment injected into s, which injection puts
\* at the end of s: the text between the last start marker (and the connector
\* the generic dialect puts behind it) and the first opening parenthesis
PredicateToken(s) ==
  LET afterStart == SliceFrom(s, RFind(s, Mark.start) + Len(Mark.start))
      fragment   == IF StartsWith(afterStart, STR_AND_UPPER)
                    THEN SliceFrom(afterStart, Len(STR_AND_UPPER)) ELSE afterStart
  IN  SliceTo(fragment, Find(fragment, <<"(">>))

TOKEN_NOT_ST_INTERSECTS ==
  <<"N","O","T"," ","S","T","_","I","N","T","E","R","S","E","C","T","S">>

TOKEN_NOT_ST_INTERSECTS_LOWER ==
  <<"n","o","t"," ","s","t","_","i","n","t","e","r","s","e","c","t","s">>

TOKEN_ST_DISJOINT_LOWER == <<"s","t","_","d","i","s","j","o","i","n","t">>

\* C1: in both dialects, injecting a fragment into a subset string that holds
\* no start marker and then removing it leaves the layer's subset string equal
\* to that string, character for character.
C1_ForeignTextPreserved ==
  [][(/\ last.op = "add"
      /\ ~Contains(last.before, Mark.start)
      /\ last'.op = "remove")
     => layer'.subsetString = last.before]_vars

\* C2: in both dialects, injecting the same filter definition a second time
\* leaves the layer's subset string as the first injection made it.
C2_InjectionIdempotent ==
  [][(/\ last.op = "add"
      /\ last'.op = "add"
      /\ last'.def = last.def)
     => layer'.subsetString = layer.subsetString]_vars

\* C3: in both dialects, parsing the layer's subset string right after a valid
\* definition d was injected into marker-free text succeeds and gives d's
\* predicate, d's effective WKT and d's CRS.
C3_RoundTrip ==
  [][(/\ last.op = "add"
      /\ isValid(last.def)
      /\ HasNoMarker(last.before)
      /\ last'.op = "parse")
     => /\ last'.ok
        /\ last'.result.predicate = last.def.predicate
        /\ effectiveWkt(last'.result) = effectiveWkt(last.def)
        /\ last'.result.crs = last.def.crs]_vars

\* C4: in the generic dialect, the fragment injected for a DISJOINT definition
\* into marker-free text has the predicate token NOT ST_INTERSECTS, and parsing
\* the layer's subset string then succeeds with predicate DISJOINT.
C4_DisjointRewriteSymmetry ==
  [][(/\ ~IsSensorThings
      /\ last.op = "add"
      /\ last.def.predicate = DISJOINT
      /\ HasNoMarker(last.before)
      /\ last'.op = "parse")
     => /\ PredicateToken(layer.subsetString) = TOKEN_NOT_ST_INTERSECTS
        /\ last'.ok
        /\ last'.result.predicate = DISJOINT]_vars

\* C4: a generic layer with foreign text in front of a NOT ST_INTERSECTS
\* fragment has been parsed as DISJOINT
C4_Witness ==
  /\ ~IsSensorThings
  /\ last.op = "parse"
  /\ last.ok
  /\ last.result.predicate = DISJOINT
  /\ Find(layer.subsetString, Mark.start) > 0
  /\ PredicateToken(layer.subsetString) = TOKEN_NOT_ST_INTERSECTS

\* C5 (as the code has it): in the SensorThings dialect, the fragment injected
\* for a DISJOINT definition has the predicate token st_disjoint: the operator
\* name in lower case, without the negation rule of the generic dialect.
C5_SensorThingsDisjointLowerCase ==
  (/\ IsSensorThings
   /\ last.op = "add"
   /\ last.def.predicate = DISJOINT)
  => PredicateToken(layer.subsetString) = TOKEN_ST_DISJOINT_LOWER

\* C5: a DISJOINT definition has been injected into a SensorThings layer
C5_Witness ==
  /\ IsSensorThings
  /\ last.op = "add"
  /\ last.def.predicate = DISJOINT
  /\ PredicateToken(layer.subsetString) = TOKEN_ST_DISJOINT_LOWER

\* C5 (as stated): in the SensorThings dialect, the fragment injected for a
\* DISJOINT definition has the predicate token not st_intersects.
C5_SensorThingsDisjointNegated ==
  (/\ IsSensorThings
   /\ last.op = "add"
   /\ last.def.predicate = DISJOINT)
  => PredicateToken(layer.subsetString) = TOKEN_NOT_ST_INTERSECTS_LOWER

\* C6: removal from, and parsing of, a subset string that holds the start
\* marker with no stop marker after it fails with MalformedEmbedding and
\* leaves the subset string as it was.
C6_MalformedEmbeddingRejected ==
  (/\ last.op \in {"remove", "parse"}
   /\ IsMalformed(last.before))
  => /\ ~last.ok
     /\ last.error = "MalformedEmbedding"
     /\ layer.subsetString = last.before

\* ------------------------------------------------------------------------
\* Properties of the catalog (checked under SpecCatalog)
\* ------------------------------------------------------------------------

\* the entry has the parsed definition's CRS and WKT
IsExactMatch(parsedDef, entry) ==
  parsedDef.crs = entry.crs /\ parsedDef.wkt = entry.wkt

\* the entry has the parsed definition's CRS and its bounding box has the parsed WKT
IsBoxMatch(parsedDef, entry) ==
  parsedDef.crs = entry.crs /\ parsedDef.wkt = asWkt(boxGeometry(entry))

\* the catalog entries reconciliation went through, in storage order
ReconciledEntries == loadAllFilterDefinitions(last.values)

\* C7: when one entry matches the parsed definition exactly and another one
\* only by its bounding box, reconciliation returns the exact one, in every
\* storage order.
C7_ExactMatchWins ==
  last.op = "reconcile" =>
    \A a, b \in 1..Len(ReconciledEntries) :
      (/\ IsExactMatch(last.def, ReconciledEntries[a])
       /\ IsBoxMatch(last.def, ReconciledEntries[b])
       /\ ~IsExactMatch(last.def, ReconciledEntries[b]))
      => last.result.name = ReconciledEntries[a].name

\* C8: the result of reconciliation has bbox set exactly when the entry it
\* returns was matched by its bounding box; an entry matched exactly comes
\* back with bbox unset, whatever flag it was saved with.
C8_BboxOnlyOnBoxMatch ==
  last.op = "reconcile" =>
    \A i \in 1..Len(ReconciledEntries) :
      last.result.name = ReconciledEntries[i].name =>
        (last.result.bbox <=> ~IsExactMatch(last.def, ReconciledEntries[i]))

\* C9: when some entry matches, exactly or by its bounding box, the result has
\* the name, WKT and CRS of a matching entry and the parsed definition's
\* predicate; when none matches, the result is the parsed definition.
C9_NameFromEntryPredicateFromParsed ==
  last.op = "reconcile" =>
    LET matching == {i \in 1..Len(ReconciledEntries) :
                       \/ IsExactMatch(last.def, ReconciledEntries[i])
                       \/ IsBoxMatch(last.def, ReconciledEntries[i])}
    IN  IF matching = {} THEN last.result = last.def
        ELSE /\ last.result.predicate = last.def.predicate
             /\ \E i \in matching :
                  /\ last.result.name = ReconciledEntries[i].name
                  /\ last.result.wkt = ReconciledEntries[i].wkt
                  /\ last.result.crs = ReconciledEntries[i].crs

\* C9: reconciliation has returned an entry whose stored predicate is not the
\* parsed one
C9_Witness ==
  /\ last.op = "reconcile"
  /\ \E i \in 1..Len(ReconciledEntries) :
       /\ last.result.name = ReconciledEntries[i].name
       /\ ReconciledEntries[i].predicate # last.def.predicate
       /\ last.result.predicate = last.def.predicate

\* C10: saving a definition whose storage record the catalog already holds
\* under its name changes nothing and asks nothing; saving over a distinct
\* entry of that name asks, replaces the entry when the answer is yes and
\* leaves the catalog as it was when the answer is no.
C10_SaveOverExistingName ==
  [][last'.op = "save" =>
       LET filterDef == last'.def
           held      == hasSettingsValue(settings, filterDef.name)
           identical == held /\ settings[filterDef.name] = storageDict(filterDef)
       IN  /\ identical => (settings' = settings /\ ~last'.asked)
           /\ (held /\ ~identical) =>
                /\ settings' # settings => (last'.asked /\ last'.answer)
                /\ (isValid(filterDef) /\ filterDef.name # "") => last'.asked
                /\ (last'.asked /\ last'.answer) =>
                     settings' = [settings EXCEPT ![filterDef.name] = storageDict(filterDef)]
                /\ (last'.asked /\ ~last'.answer) => settings' = settings]_vars

\* C10: a distinct entry has been replaced after the answer yes
C10_Witness ==
  /\ last.op = "save"
  /\ last.asked
  /\ last.answer
  /\ hasSettingsValue(settings, last.def.name)
  /\ settings[last.def.name] = storageDict(last.def)

\* C11: saving a definition that is not valid or has no name changes nothing
\* in the catalog, and after every step each catalog entry is a valid
\* definition stored under its own, non-empty name.
C11_InvalidOrUnnamedNotSaved ==
  [][/\ (last'.op = "save" /\ (~isValid(last'.def) \/ last'.def.name = ""))
          => (settings' = settings /\ ~last'.asked)
     /\ \A name \in DOMAIN settings' :
          /\ name # ""
          /\ ~fromStorageDictRaises(settings'[name])
          /\ fromStorageDict(settings'[name]).name = name
          /\ isValid(fromStorageDict(settings'[name]))]_vars

\* C11: the default filter, renamed to a name the catalog holds, has been
\* handed to save and the entry of that name is still a valid definition
C11_Witness ==
  /\ last.op = "save"
  /\ ~isValid(last.def)
  /\ hasSettingsValue(settings, last.def.name)
  /\ isValid(fromStorageDict(settings[last.def.name]))

\* ------------------------------------------------------------------------
\* The strings the injection is expected to produce, written out
\* ------------------------------------------------------------------------

\* the always-true clause that opens the owned region of a SensorThings filter
EXPECTED_START_SENTINEL ==
  <<"'","S","p","a","t","i","a","l","F","i","l","t","e","r"," ","P","l","u",
    "g","i","n"," ","S","t","a","r","t","'"," ","e","q"," ","'","S","p","a",
    "t","i","a","l","F","i","l","t","e","r"," ","P","l","u","g","i","n"," ",
    "S","t","a","r","t","'">>

\* the always-true clause that closes it
EXPECTED_STOP_SENTINEL ==
  <<"'","S","p","a","t","i","a","l","F","i","l","t","e","r"," ","P","l","u",
    "g","i","n"," ","S","t","o","p","'"," ","e","q"," ","'","S","p","a","t",
    "i","a","l","F","i","l","t","e","r"," ","P","l","u","g","i","n"," ","S",
    "t","o","p","'">>

EXPECTED_AND_LOWER ==
  <<" ","a","n","d"," ">>

EXPECTED_AND_UPPER ==
  <<" ","A","N","D"," ">>

EXPECTED_ST_INTERSECTS_LOWER ==
  <<"s","t","_","i","n","t","e","r","s","e","c","t","s">>

EXPECTED_ST_WITHIN_LOWER ==
  <<"s","t","_","w","i","t","h","i","n">>

EXPECTED_ST_INTERSECTS ==
  <<"S","T","_","I","N","T","E","R","S","E","C","T","S">>

EXPECTED_ST_WITHIN ==
  <<"S","T","_","W","I","T","H","I","N">>

EXPECTED_GEOGRAPHY_OPEN ==
  <<"(","l","o","c","a","t","i","o","n",","," ","g","e","o","g","r","a","p",
    "h","y","'">>

EXPECTED_GEOGRAPHY_CLOSE ==
  <<"'",")">>

EXPECTED_TRANSFORM_OPEN ==
  <<"(","g","e","o","m",","," ","S","T","_","T","R","A","N","S","F","O","R",
    "M","(","S","T","_","G","e","o","m","F","r","o","m","T","e","x","t","(",
    "'">>

EXPECTED_START_COMMENT ==
  <<"/","*"," ","S","p","a","t","i","a","l","F","i","l","t","e","r"," ","P",
    "l","u","g","i","n"," ","S","t","a","r","t"," ","*","/">>

EXPECTED_STOP_COMMENT ==
  <<"/","*"," ","S","p","a","t","i","a","l","F","i","l","t","e","r"," ","P",
    "l","u","g","i","n"," ","S","t","o","p"," ","*","/">>

EXPECTED_ST_TRANSFORM ==
  <<"S","T","_","T","R","A","N","S","F","O","R","M">>

\* the SRID as the generic fragment writes it
ExpectedSrid(crs) ==
  CASE crs = 4326 -> <<"4","3","2","6">>
    [] crs = 3857 -> <<"3","8","5","7">>

\* the SensorThings operator of a predicate
ExpectedSensorThingsToken(predicate) ==
  CASE predicate = INTERSECTS -> EXPECTED_ST_INTERSECTS_LOWER
    [] predicate = WITHIN -> EXPECTED_ST_WITHIN_LOWER
    [] predicate = DISJOINT -> TOKEN_ST_DISJOINT_LOWER

\* the generic operator of a predicate
ExpectedGenericToken(predicate) ==
  CASE predicate = INTERSECTS -> EXPECTED_ST_INTERSECTS
    [] predicate = WITHIN -> EXPECTED_ST_WITHIN
    [] predicate = DISJOINT -> TOKEN_NOT_ST_INTERSECTS

\* the effective geometry of a definition in the coordinates of another CRS
ExpectedReprojectedWkt(filterDef) ==
  IF effectiveWkt(filterDef) = WKT_TRI THEN WKT_TRI_T ELSE WKT_BOX_T

\* C15: in the SensorThings dialect, injecting into non-empty, marker-free
\* text s gives s, " and ", the start sentinel, " and ", the fragment,
\* " and ", the stop sentinel; the fragment is the lower-case operator applied
\* to the field and the reprojected geography, and the string holds no SRID
\* and no ST_TRANSFORM.
C15_SensorThingsInjection ==
  (/\ IsSensorThings
   /\ last.op = "add"
   /\ last.before # <<>>
   /\ HasNoMarker(last.before))
  => /\ layer.subsetString =
          last.before \o EXPECTED_AND_LOWER \o EXPECTED_START_SENTINEL
            \o EXPECTED_AND_LOWER
            \o ExpectedSensorThingsToken(last.def.predicate)
            \o EXPECTED_GEOGRAPHY_OPEN \o ExpectedReprojectedWkt(last.def)
            \o EXPECTED_GEOGRAPHY_CLOSE
            \o EXPECTED_AND_LOWER \o EXPECTED_STOP_SENTINEL
     /\ ~Contains(layer.subsetString, ExpectedSrid(last.def.crs))
     /\ ~Contains(layer.subsetString, ExpectedSrid(layer.crs))
     /\ ~Contains(layer.subsetString, EXPECTED_ST_TRANSFORM)

\* C15: a WITHIN definition with the bounding-box flag has been injected into
\* the SensorThings filter "x"
C15_Witness ==
  /\ IsSensorThings
  /\ last.op = "add"
  /\ last.before = <<"x">>
  /\ last.def.predicate = WITHIN
  /\ last.def.bbox
  /\ Contains(layer.subsetString, EXPECTED_ST_WITHIN_LOWER)

\* C16: in the generic dialect, injecting into the empty filter gives the
\* start marker, the fragment and the stop marker with no " AND " anywhere;
\* the fragment is predicate(geom, ST_TRANSFORM(ST_GeomFromText('<effective
\* WKT>', <SRID of the definition>), <SRID of the layer>)).
C16_GenericInjectionIntoEmpty ==
  (/\ ~IsSensorThings
   /\ last.op = "add"
   /\ last.before = <<>>)
  => /\ layer.subsetString =
          EXPECTED_START_COMMENT
            \o ExpectedGenericToken(last.def.predicate)
            \o EXPECTED_TRANSFORM_OPEN \o effectiveWkt(last.def)
            \o <<"'", ",", " ">> \o ExpectedSrid(last.def.crs)
            \o <<")", ",", " ">> \o ExpectedSrid(layer.crs) \o <<")", ")">>
            \o EXPECTED_STOP_COMMENT
     /\ ~Contains(layer.subsetString, EXPECTED_AND_UPPER)

\* C16: an INTERSECTS definition with the bounding-box flag has been injected
\* into the empty filter of the generic layer
C16_Witness ==
  /\ ~IsSensorThings
  /\ last.op = "add"
  /\ last.before = <<>>
  /\ last.def.predicate = INTERSECTS
  /\ last.def.bbox
  /\ Contains(layer.subsetString, WKT_BOX)

\* how many times sub occurs in s
CountOccurrences(s, sub) ==
  Cardinality({i \in 0..(Len(s) - Len(sub)) : OccursAt(s, sub, i)})

\* FILTERED: s holds one start marker and, behind it, one stop marker
IsFiltered(s) ==
  /\ CountOccurrences(s, Mark.start) = 1
  /\ CountOccurrences(s, Mark.stop) = 1
  /\ Find(s, Mark.start) < Find(s, Mark.stop)

\* C17: from a subset string that is UNFILTERED (no marker) or FILTERED (one
\* start marker, one stop marker behind it), an injection or a removal leaves
\* at most one start marker and at most one stop marker, and the start marker
\* is there exactly when the operation was an injection; so the same holds
\* after any sequence of injections and removals that starts without markers.
C17_FilterLifetime ==
  [][(/\ HasNoMarker(layer.subsetString) \/ IsFiltered(layer.subsetString)
      /\ last'.op \in {"add", "remove"})
     => /\ CountOccurrences(layer'.subsetString, Mark.start) <= 1
        /\ CountOccurrences(layer'.subsetString, Mark.stop) <= 1
        /\ Contains(layer'.subsetString, Mark.start) <=> last'.op = "add"
        /\ HasNoMarker(layer'.subsetString) \/ IsFiltered(layer'.subsetString)]_vars

\* C17: a definition has been injected into a layer that carried a fragment,
\* and the layer holds one pair of markers
C17_Witness ==
  /\ last.op = "add"
  /\ IsFiltered(last.before)
  /\ IsFiltered(layer.subsetString)

\* s holds the stop marker text in front of a start marker that has a stop
\* marker of its own behind it
HasStopBeforeStart(s) ==
  LET i == Find(s, Mark.start)
      j == Find(s, Mark.stop)
  IN  /\ i # -1
      /\ j # -1
      /\ j < i
      /\ FindFrom(s, Mark.stop, i + Len(Mark.start)) # -1

\* s without the span from its start marker to the first stop marker behind it
RemainderOutsideSpan(s) ==
  LET i == Find(s, Mark.start)
      j == FindFrom(s, Mark.stop, i + Len(Mark.start))
  IN  SliceTo(s, i) \o SliceFrom(s, j + Len(Mark.stop))

\* s without the connector " and " at its end, if it has one
WithoutTrailingConnector(s) ==
  IF Len(s) >= Len(EXPECTED_AND_LOWER)
       /\ SliceFrom(s, Len(s) - Len(EXPECTED_AND_LOWER)) = EXPECTED_AND_LOWER
  THEN SliceTo(s, Len(s) - Len(EXPECTED_AND_LOWER))
  ELSE s

\* C18: when the stop marker text stands in front of the start marker, removal
\* takes out the span from the start marker to the first stop marker behind it
\* and nothing else (but for the connector in front of the span), and parsing
\* a generic layer reads the fragment of that span.
C18_StopAfterStartDelimits ==
  (/\ last.op \in {"remove", "parse"}
   /\ HasStopBeforeStart(last.before))
  => IF last.op = "remove"
     THEN layer.subsetString \in
            {RemainderOutsideSpan(last.before),
             WithoutTrailingConnector(RemainderOutsideSpan(last.before))}
     ELSE IsSensorThings \/ last.ok

\* ------------------------------------------------------------------------
\* Loading from a catalog that was written by hand or by another version
\* ------------------------------------------------------------------------

\* largest predicate ordinal found in a stored record
MaxPredicate == 4

\* records of five fields with an integer as predicate
FiveFieldRecords(name) ==
  {[name |-> name, wkt |-> f[1], srid |-> f[2], predicate |-> IntToStr(p),
    bbox |-> FALSE] :
     f \in {<<WKT_TRI, authid(3857)>>, <<<<>>, authid(3857)>>, <<WKT_TRI, <<>>>>},
     p \in 0..MaxPredicate}

\* records with a field missing, with a field too many, with a predicate that
\* is no integer
OddRecords(name) ==
  {[name |-> name, wkt |-> WKT_TRI, srid |-> authid(3857), predicate |-> <<"1">>],
   [name |-> name, wkt |-> WKT_TRI, srid |-> authid(3857), predicate |-> <<"1">>,
    bbox |-> FALSE, comment |-> <<"x">>],
   [name |-> name, wkt |-> WKT_TRI, srid |-> authid(3857), predicate |-> <<"x">>,
    bbox |-> FALSE]}

StoredRecords(name) == FiveFieldRecords(name) \cup OddRecords(name)

\* the catalogs found in the settings: each name with no record or one record
StoredCatalogs ==
  UNION {{[name \in names |-> choice[name]] :
            choice \in [names -> UNION {StoredRecords(n) : n \in names}]}
         : names \in SUBSET Names}

\* the catalogs whose records carry the name they are stored under
FoundCatalogs ==
  {store \in StoredCatalogs : \A name \in DOMAIN store : store[name].name = name}

\* FilterDefinition.fromStorageDict(value): the definition, or the exception
\* of the assert, of the field access or of int(self.predicate)
fromStorageDictOutcome(value) ==
  IF fromStorageDictRaises(value) THEN Raised("AssertionError")
  ELSE IF DOMAIN value # {"name", "wkt", "srid", "predicate", "bbox"}
  THEN Raised("KeyError")
  ELSE IF ~IsIntLiteral(value.predicate) THEN Raised("ValueError")
  ELSE Returned(fromStorageDict(value))

\* loadAllFilterDefinitions(): the list of definitions, or the exception of
\* the first value whose fromStorageDict raises
loadAllFilterDefinitionsOutcome(values) ==
  LET raising == {i \in 1..Len(values) : ~fromStorageDictOutcome(values[i]).ok}
  IN  IF raising # {}
      THEN [ok |-> FALSE, error |-> fromStorageDictOutcome(values[SetMin(raising)]).error,
            defs |-> <<>>]
      ELSE [ok |-> TRUE, error |-> "",
            defs |-> [i \in 1..Len(values) |-> fromStorageDictOutcome(values[i]).def]]

InitLoad ==
  /\ layer = [storageType |-> GPKG_STORAGE_TYPE, crs |-> 4326, subsetString |-> <<>>]
  /\ settings \in FoundCatalogs
  /\ last = NoOperation
  /\ edits = 0
  /\ controller = NoController
  /\ heap = EmptyHeap
  /\ project = EmptyProject

\* loadFilterDefinition(name)
LoadFilterDefinition(name) ==
  /\ hasSettingsValue(settings, name)
  /\ LET r == fromStorageDictOutcome(settings[name])
     IN  last' = [NoOperation EXCEPT !.op = "load", !.ok = r.ok, !.error = r.error,
                                     !.result = r.def, !.values = <<settings[name]>>]
  /\ UNCHANGED <<layer, settings, edits, controller, heap, project>>

\* loadFilterDefinition(name).isValid
IsValid(name) ==
  /\ hasSettingsValue(settings, name)
  /\ fromStorageDictOutcome(settings[name]).ok
  /\ LET filterDef == fromStorageDictOutcome(settings[name]).def
     IN  last' = [NoOperation EXCEPT !.op = "isValid", !.def = filterDef,
                                     !.ok = isValid(filterDef)]
  /\ UNCHANGED <<layer, settings, edits, controller, heap, project>>

\* loadAllFilterDefinitions()
LoadAllFilterDefinitions ==
  \E values \in allSettingsValues(settings) :
    LET r == loadAllFilterDefinitionsOutcome(values)
    IN  /\ last' = [NoOperation EXCEPT !.op = "loadAll", !.ok = r.ok, !.error = r.error,
                                       !.result = r.defs, !.values = values]
        /\ UNCHANGED <<layer, settings, edits, controller, heap, project>>

NextLoad ==
  \/ \E name \in Names : LoadFilterDefinition(name)
  \/ \E name \in Names : IsValid(name)
  \/ LoadAllFilterDefinitions

SpecLoad == InitLoad /\ [][NextLoad]_vars

\* C13: a definition is valid exactly when its geometry is valid, its CRS is
\* valid and its predicate is one of the ordinals 1, 2, 3.
C13_ValidIffPredicateDefined ==
  last.op = "isValid" =>
    (last.ok <=> /\ isGeosValid(geometry(last.def))
                 /\ crsIsValid(last.def.crs)
                 /\ last.def.predicate \in {INTERSECTS, WITHIN, DISJOINT})

\* the record has five fields, an integer as predicate and a boolean as bbox
IsWellFormedRecord(value) ==
  /\ DOMAIN value = {"name", "wkt", "srid", "predicate", "bbox"}
  /\ IsIntLiteral(value.predicate)
  /\ value.bbox \in BOOLEAN

\* C14: loadAll succeeds whatever the catalog holds, and returns one
\* definition for each well-formed record and none for the others.
C14_LoadAllSkipsMalformed ==
  last.op = "loadAll" =>
    /\ last.ok
    /\ Len(last.result) =
         Cardinality({i \in 1..Len(last.values) : IsWellFormedRecord(last.values[i])})
    /\ \A i \in 1..Len(last.values) :
         IsWellFormedRecord(last.values[i]) =>
           \E k \in 1..Len(last.result) : last.result[k].name = last.values[i].name


\* ------------------------------------------------------------------------
\* controller.py, widgets.py: the controller, its current filter and the
\* layers of the project.  FilterDefinition objects have identity: the heap
\* maps a reference to the object's fields, and the field crs of an object is
\* itself a reference, to a QgsCoordinateReferenceSystem handle.
\* ------------------------------------------------------------------------

\* the object the dialog's FilterModel holds for the catalog entry "A"
ENTRY == 1

\* FilterModel: the rows of the dialog, each a FilterDefinition object
filterModel == <<ENTRY>>

\* the definition an object stands for: its fields, the CRS read through the
\* handle
deref(h, ref) == [h.objects[ref] EXCEPT !.crs = h.crs[h.objects[ref].crs]]

\* f with key k bound to v
Put(f, k, v) == [x \in DOMAIN f \cup {k} |-> IF x = k THEN v ELSE f[x]]

\* the least reference that is not in use
Fresh(used) == SetMin((1..(Cardinality(used) + 1)) \ used)

\* the objects the dialog or the controller still refers to
Referenced(c) ==
  {filterModel[i] : i \in 1..Len(filterModel)} \cup ({c.currentFilter} \ {None})

\* reference counting: objects and handles nothing refers to are gone
collect(c, h) ==
  LET kept == Referenced(c) \cap DOMAIN h.objects
  IN  [objects |-> [ref \in kept |-> h.objects[ref]],
       crs     |-> [handle \in {h.objects[ref].crs : ref \in kept} |-> h.crs[handle]]]

\* FilterDefinition(name, wkt, crs, predicate, bbox) as a new object that
\* controller.currentFilter is about to refer to: [ref, heap]
construct(c, h, filterDef) ==
  LET used   == {filterModel[i] : i \in 1..Len(filterModel)}
      ref    == Fresh(used)
      handle == Fresh({h.objects[other].crs : other \in used \cap DOMAIN h.objects})
  IN  [ref  |-> ref,
       heap |-> [objects |-> Put(h.objects, ref, [filterDef EXCEPT !.crs = handle]),
                 crs     |-> Put(h.crs, handle, filterDef.crs)]]

\* dataclasses.replace(obj): a new object with the field values of obj; the
\* field crs of both refers to the same handle
replace(h, obj) ==
  LET ref == Fresh({filterModel[i] : i \in 1..Len(filterModel)})
  IN  [ref |-> ref, heap |-> [h EXCEPT !.objects = Put(@, ref, h.objects[obj])]]

\* settings.SUPPORTED_STORAGE_TYPES, of a QGIS that knows SensorThings
SUPPORTED_STORAGE_TYPES ==
  {"POSTGRESQL DATABASE WITH POSTGIS EXTENSION", "GPKG", "SQLITE", "OGC SENSORTHINGS API"}

\* layer.storageType().upper()
UpperStorageType(storageType) ==
  IF storageType = SENSORTHINGS_STORAGE_TYPE THEN "OGC SENSORTHINGS API" ELSE storageType

\* helpers.isLayerSupported(layer)
isLayerSupported(l) ==
  /\ l.isVector
  /\ UpperStorageType(l.storageType) \in SUPPORTED_STORAGE_TYPES
  /\ l.isSpatial

\* helpers.hasLayerException(layer)
hasLayerException(l) == l.exception

\* FilterController.hasValidFilter()
hasValidFilter(c, h) ==
  c.currentFilter # None /\ isValid(deref(h, c.currentFilter))

\* FilterController.updateLayerFilters(): the project's layers afterwards
updateLayerFilters(c, h, p) ==
  [id \in DOMAIN p |->
     IF ~isLayerSupported(p[id]) THEN p[id]
     ELSE IF hasValidFilter(c, h) /\ ~hasLayerException(p[id])
     THEN [p[id] EXCEPT !.subsetString =
                          addFilterToLayer(p[id], deref(h, c.currentFilter))]
     ELSE [p[id] EXCEPT !.subsetString = removeFilterFromLayer(p[id])]]

\* FilterController.refreshFilter()
refreshFilter(c, h, p) ==
  [controller |-> c, heap |-> h, project |-> updateLayerFilters(c, h, p), ok |-> TRUE]

\* FilterController.removeFilter()
removeFilter(c, h, p) == refreshFilter([c EXCEPT !.currentFilter = None], h, p)

\* FilterController.setFilterFromLayer(layer); an exception of
\* fromFilterString leaves the handler before anything is set
setFilterFromLayer(c, h, p, id, values) ==
  LET parsed == fromFilterString(p[id], values)
      made   == construct(c, h, parsed.def)
  IN  IF ~parsed.ok
      THEN [controller |-> c, heap |-> h, project |-> p, ok |-> FALSE]
      ELSE refreshFilter([c EXCEPT !.currentFilter = made.ref], made.heap, p)

\* FilterController.onLayersAdded(layers): p holds the added layers already,
\* layers lists their ids in the order of the signal
onLayersAdded(c, h, p, layers, values) ==
  LET supported == {i \in 1..Len(layers) : isLayerSupported(p[layers[i]])}
      marked    == {i \in supported :
                      Contains(p[layers[i]].subsetString,
                               getFilterStartStopString(p[layers[i]]).start)}
  IN  IF hasValidFilter(c, h)
      THEN [controller |-> c, heap |-> h, ok |-> TRUE,
            project |-> [id \in DOMAIN p |->
                           IF \E i \in supported : layers[i] = id
                           THEN [p[id] EXCEPT !.subsetString =
                                   addFilterToLayer(p[id], deref(h, c.currentFilter))]
                           ELSE p[id]]]
      ELSE IF marked # {}
      THEN setFilterFromLayer(c, h, p, layers[SetMin(marked)], values)
      ELSE [controller |-> c, heap |-> h, project |-> p, ok |-> TRUE]

\* FilterController.onSketchFinished(geometry), crs is the CRS of the project
onSketchFinished(c, h, p, sketch, crs) ==
  LET made == construct(c, h, [defaultFilter EXCEPT !.name = "New filter from sketch",
                                                    !.wkt = asWkt(sketch),
                                                    !.crs = crs])
  IN  IF ~isGeosValid(sketch)
      THEN [controller |-> c, heap |-> h, project |-> p, ok |-> TRUE]
      ELSE refreshFilter([c EXCEPT !.currentFilter = made.ref], made.heap, p)

\* FilterController.setFilterPredicate(predicate)
setFilterPredicate(c, h, p, predicate) ==
  refreshFilter(c, [h EXCEPT !.objects[c.currentFilter].predicate = predicate], p)

\* FilterController.setFilterBbox(bbox)
setFilterBbox(c, h, p, bbox) ==
  refreshFilter(c, [h EXCEPT !.objects[c.currentFilter].bbox = bbox], p)

\* ManageFiltersDialog.onNameClicked(): text and ok are what QInputDialog
\* returns
onNameClicked(c, h, p, text, ok) ==
  IF ~ok THEN [controller |-> c, heap |-> h, project |-> p, ok |-> TRUE]
  ELSE refreshFilter(c, [h EXCEPT !.objects[c.currentFilter].name = text], p)

\* ExtentDialog.accept(): the attribute srsid it sets is one no code reads, so
\* the object keeps its CRS and the attribute is not kept here
accept(c, h, p, extentIsValid, extent) ==
  IF ~extentIsValid THEN [controller |-> c, heap |-> h, project |-> p, ok |-> TRUE]
  ELSE refreshFilter(c, [h EXCEPT !.objects[c.currentFilter].wkt =
                                     asWkt(boundingBoxGeometry(extent))], p)

\* onApplyClicked with the selected object itself as the current filter
onApplyClickedSharingEntry(c, h, p, selectedIndex) ==
  refreshFilter([c EXCEPT !.currentFilter = filterModel[selectedIndex]], h, p)

\* ManageFiltersDialog.onApplyClicked()
onApplyClicked(c, h, p, selectedIndex) ==
  LET filterDefinitionCopy == replace(h, filterModel[selectedIndex])
  IN  refreshFilter([c EXCEPT !.currentFilter = filterDefinitionCopy.ref],
                    filterDefinitionCopy.heap, p)

\* the layers that get added to the project, as they are when they are added:
\* a layer with the user's own filter, a layer with the exception flag, a layer
\* of a project that was saved with the filter on, a table without geometry
LayerIds == <<"roads", "lakes", "saved", "notes">>

AddedLayer(id) ==
  LET plain == [storageType |-> GPKG_STORAGE_TYPE, crs |-> 4326, subsetString |-> <<>>,
                exception |-> FALSE, isVector |-> TRUE, isSpatial |-> TRUE]
  IN  CASE id = "roads" -> [plain EXCEPT !.subsetString = <<"x">>]
        [] id = "lakes" -> [plain EXCEPT !.exception = TRUE]
        [] id = "saved" ->
             [plain EXCEPT !.subsetString =
                addFilterToLayer(plain, FilterDefinition("A", WKT_TRI, 3857,
                                                         INTERSECTS, FALSE))]
        [] OTHER -> [plain EXCEPT !.isSpatial = FALSE]

\* the ids of LayerIds that are in ids, in the order of LayerIds
InOrder(ids) ==
  LET RECURSIVE pick(_)
      pick(i) == IF i > Len(LayerIds) THEN <<>>
                 ELSE (IF LayerIds[i] \in ids THEN <<LayerIds[i]>> ELSE <<>>) \o pick(i + 1)
  IN  pick(1)

\* the dialog open on the catalog with the entry "A", no current filter, no
\* layer in the project
InitController ==
  /\ layer = [storageType |-> GPKG_STORAGE_TYPE, crs |-> 4326, subsetString |-> <<>>]
  /\ settings = InitialCatalog
  /\ last = NoOperation
  /\ edits = 0
  /\ controller = NoController
  /\ heap = [objects |-> Put(<<>>, ENTRY, [fromStorageDict(settings["A"]) EXCEPT !.crs = 1]),
             crs     |-> Put(<<>>, 1, fromStorageDict(settings["A"]).crs)]
  /\ project = [id \in {} |-> AddedLayer(id)]

\* the state after a handler: what it returned, garbage collected
Handled(r) ==
  /\ controller' = r.controller
  /\ heap' = collect(r.controller, r.heap)
  /\ project' = r.project
  /\ UNCHANGED <<layer, settings, edits>>

\* the sketching tool finishes; the project has a CRS or has none
OnSketchFinished(sketch, crs) ==
  /\ Handled(onSketchFinished(controller, heap, project, sketch, crs))
  /\ last' = [NoOperation EXCEPT !.op = "onSketchFinished"]

\* the predicate button; without a current filter the handler raises
\* AttributeError and nothing changes
SetFilterPredicate(predicate) ==
  /\ controller.currentFilter # None
  /\ Handled(setFilterPredicate(controller, heap, project, predicate))
  /\ last' = [NoOperation EXCEPT !.op = "setFilterPredicate"]

SetFilterBbox(bbox) ==
  /\ controller.currentFilter # None
  /\ Handled(setFilterBbox(controller, heap, project, bbox))
  /\ last' = [NoOperation EXCEPT !.op = "setFilterBbox"]

OnNameClicked(text, ok) ==
  /\ controller.currentFilter # None
  /\ Handled(onNameClicked(controller, heap, project, text, ok))
  /\ last' = [NoOperation EXCEPT !.op = "onNameClicked"]

Accept(extentIsValid, extent) ==
  /\ controller.currentFilter # None
  /\ Handled(accept(controller, heap, project, extentIsValid, extent))
  /\ last' = [NoOperation EXCEPT !.op = "accept"]

\* the dialog is made for a controller that has a current filter
\* (ManageFiltersDialog.__init__ reads its name)
OnApplyClicked(selectedIndex) ==
  /\ controller.currentFilter # None
  /\ Handled(onApplyClicked(controller, heap, project, selectedIndex))
  /\ last' = [NoOperation EXCEPT !.op = "onApplyClicked"]

RemoveFilter ==
  /\ Handled(removeFilter(controller, heap, project))
  /\ last' = [NoOperation EXCEPT !.op = "removeFilter"]

\* QgsProject.cleared: the project has lost its layers
OnProjectCleared ==
  /\ Handled(removeFilter(controller, heap, [id \in {} |-> AddedLayer(id)]))
  /\ last' = [NoOperation EXCEPT !.op = "onProjectCleared"]

\* QgsProject.layersAdded: the layers are in the project when the signal fires
OnLayersAdded(ids) ==
  /\ ids # {}
  /\ ids \cap DOMAIN project = {}
  /\ \E values \in allSettingsValues(settings) :
       Handled(onLayersAdded(controller, heap,
                             [id \in DOMAIN project \cup ids |->
                                IF id \in ids THEN AddedLayer(id) ELSE project[id]],
                             InOrder(ids), values))
  /\ last' = [NoOperation EXCEPT !.op = "onLayersAdded"]

NextController ==
  \/ \E sketch \in {NullGeometry, [shape |-> "box", coords |-> "u"]},
        crs \in {4326, InvalidCrs} : OnSketchFinished(sketch, crs)
  \/ \E predicate \in PredicateValues : SetFilterPredicate(predicate)
  \/ \E bbox \in BOOLEAN : SetFilterBbox(bbox)
  \/ \E ok \in BOOLEAN : OnNameClicked("B", ok)
  \/ \E extentIsValid \in BOOLEAN : Accept(extentIsValid, [shape |-> "box", coords |-> "u"])
  \/ \E selectedIndex \in 1..Len(filterModel) : OnApplyClicked(selectedIndex)
  \/ RemoveFilter
  \/ OnProjectCleared
  \/ \E ids \in SUBSET {LayerIds[i] : i \in 1..Len(LayerIds)} : OnLayersAdded(ids)

SpecController == InitController /\ [][NextController]_vars

\* ------------------------------------------------------------------------
\* Claims about the controller
\* ------------------------------------------------------------------------

\* the handlers that edit the current filter
ActiveFilterEdits ==
  {"onSketchFinished", "setFilterPredicate", "setFilterBbox", "onNameClicked", "accept"}

\* C12: applying a catalog entry makes an independent copy. No edit of the
\* current filter (name, WKT, CRS, predicate, bbox flag) changes the catalog,
\* and none changes an object of the dialog's model: after the edit each row
\* stands for the definition it stood for before, CRS included.
C12_EditsLeaveEntryAlone ==
  [][last'.op \in ActiveFilterEdits =>
       /\ settings' = settings
       /\ \A i \in 1..Len(filterModel) :
            deref(heap', filterModel[i]) = deref(heap, filterModel[i])]_vars

\* C12 witness: the entry was applied (the current filter is another object
\* that still shares the entry's CRS handle) and was then renamed, so that it
\* differs from the entry
C12_Witness ==
  /\ last.op = "onNameClicked"
  /\ controller.currentFilter \notin {None, ENTRY}
  /\ heap.objects[controller.currentFilter].crs = heap.objects[ENTRY].crs
  /\ deref(heap, controller.currentFilter).name = "B"
  /\ deref(heap, ENTRY).name = "A"

\* the layer's subset string holds the start marker of its dialect
CarriesFragment(l) == Contains(l.subsetString, getFilterStartStopString(l).start)

\* C19: after every controller event a supported layer with the exception
\* flag carries no fragment, and a supported layer without the flag carries
\* the fragment exactly when the controller holds a valid current filter
C19_LayersFollowCurrentFilter ==
  \A id \in DOMAIN project :
    isLayerSupported(project[id]) =>
      IF hasLayerException(project[id])
      THEN ~CarriesFragment(project[id])
      ELSE CarriesFragment(project[id]) <=> hasValidFilter(controller, heap)
=============================================================================
